---- MODULE Spec2Model ----
(***************************************************************************)
(* Code Remote: the relay (server/server.py) and the agent                 *)
(* (agent/agent.py) as one state machine.                                  *)
(*                                                                         *)
(* The relay keeps command rows in SQLite, one global agent_connection     *)
(* reference, one execute_command coroutine per tool call and one          *)
(* agent_websocket coroutine per accepted socket.  Every await of the      *)
(* source is a point where the other coroutines may run, so every action   *)
(* below is the code between two awaits.                                   *)
(***************************************************************************)
EXTENDS Integers, Sequences, FiniteSets, TLC

\* ------------------------------------------------------------------ bounds
NumCalls == 2           \* tool calls (execute_command invocations) per run
NumSockets == 2         \* websocket connection attempts per run
MaxPings == 1           \* keepalive pings one agent session sends
MaxPeerFrames == 2      \* frames an arbitrary peer sends on its socket

Calls == 1..NumCalls
Sockets == 1..NumSockets

\* Optional values: Python's None and a present value.
None == <<>>
Some(v) == <<v>>

\* --------------------------------------------------------------- variables
VARIABLES
    REQUIRE_PRIVATE_NETWORK, \* server.py:361, read once from the environment
    agent_connection,        \* ConnectionManager.agent_connection: 0 is None
    commands,                \* the committed rows of table commands, by id
    db_writer,               \* the socket whose flush holds SQLite's write lock, 0: none
    db_uncommitted,          \* ids that flush has UPDATEd and not yet committed
    clock,                   \* datetime.now() of the last created_at
    call,                    \* per tool call: the execute_command coroutine
    wpc,                     \* per socket: where its agent_websocket coroutine is
    cand,                    \* per socket: the connecting candidate (headers, peer, token)
    pending,                 \* per socket: the rows fetched by the flush, not yet sent
    sock,                    \* per socket: TRUE while the transport is open
    toAgent,                 \* per socket: frames relay -> agent, in flight
    toRelay,                 \* per socket: frames agent -> relay, in flight
    ag,                      \* per socket: the agent's connect_and_run on it
    sup,                     \* the agent's main(): the reconnection supervisor
    fs_files,                \* the agent machine's regular files: path -> content
    fs_dirs,                 \* the agent machine's directories
    sent,                    \* history: per command id, the sockets its execute frames went to
    hist                     \* history: per socket, the ids the agent read and replied to

relayVars == <<REQUIRE_PRIVATE_NETWORK, agent_connection, commands, db_writer,
               db_uncommitted, clock, call, wpc, cand, pending>>
wireVars == <<sock, toAgent, toRelay>>
agentVars == <<ag, sup, fs_files, fs_dirs>>
vars == <<relayVars, wireVars, agentVars, sent, hist>>

\* ------------------------------------------------------------ the rows
\* CommandStatus, server.py:45-50
PENDING == "pending"
RUNNING == "running"
COMPLETED == "completed"
FAILED == "failed"
TIMEOUT == "timeout"
CommandStatus == {PENDING, RUNNING, COMPLETED, FAILED, TIMEOUT}
Terminal == {COMPLETED, FAILED, TIMEOUT}

\* The row execute_command inserts (server.py:143-156).  started_at and
\* completed_at are timestamps; a row's n-th write of one gets the value n.
NewRow(req, timeout, now) ==
    [req |-> req, timeout |-> timeout, status |-> PENDING,
     output |-> None, error |-> None, exit_code |-> None,
     created_at |-> now, started_at |-> None, completed_at |-> None]

Tick(t) == IF t = None THEN Some(1) ELSE Some(t[1] + 1)

\* UPDATE commands SET status = 'running', started_at = now WHERE id = ?
\* (server.py:174-177 and 425-428): no condition on the row's status.
MarkRunning(row) ==
    [row EXCEPT !.status = RUNNING, !.started_at = Tick(@)]

\* A result that is dropped when its record already holds one.
StoreResult_first_wins(row, data) ==
    IF row.status \in {"completed", "failed", "timeout"} THEN row
    ELSE [row EXCEPT !.status = IF data.status = None THEN COMPLETED ELSE data.status[1],
                     !.output = data.output, !.error = data.error,
                     !.exit_code = data.exit_code, !.completed_at = Tick(@)]

\* A result that is dropped once the invocation that asked for it returned.
StoreResult_unless_returned(row, data) ==
    IF call[data.id].pc = "done" THEN row
    ELSE [row EXCEPT !.status = IF data.status = None THEN COMPLETED ELSE data.status[1],
                     !.output = data.output, !.error = data.error,
                     !.exit_code = data.exit_code, !.completed_at = Tick(@)]

\* UPDATE commands SET status, output, error, exit_code, completed_at
\* WHERE id = ? (server.py:438-449); a missing "status" key reads "completed".
StoreResult(row, data) ==
    [row EXCEPT !.status = IF data.status = None THEN COMPLETED ELSE data.status[1],
                !.output = data.output, !.error = data.error,
                !.exit_code = data.exit_code, !.completed_at = Tick(@)]

\* The execute frame of send_command (server.py:115-119).
ExecuteFrame(id, req, timeout) ==
    [type |-> "execute", id |-> id, req |-> req, timeout |-> timeout]

\* ------------------------------------------------------- admission gates
\* An address as ipaddress.ip_address parses it: v = 4 with four octets,
\* v = 6 with eight 16-bit groups, v = 0 for text it raises ValueError on.
IPv4(a, b, c, d) == [v |-> 4, w |-> <<a, b, c, d>>]
IPv6(g1, g8) == [v |-> 6, w |-> <<g1, 0, 0, 0, 0, 0, 0, g8>>]
BadAddress == [v |-> 0, w |-> <<>>]

TAILSCALE_NETWORK == [addr |-> IPv4(100, 64, 0, 0), prefixlen |-> 10]
FLYIO_NETWORK == [addr |-> IPv6(64938, 0), prefixlen |-> 16]
AUTH_TOKEN == "secret"

RECURSIVE Pow2(_)
Pow2(n) == IF n = 0 THEN 1 ELSE 2 * Pow2(n - 1)

\* The leading 16 bits of an address; both networks have prefixlen <= 16.
Top16(ip) == IF ip.v = 4 THEN ip.w[1] * 256 + ip.w[2] ELSE ip.w[1]

\* `ip in network` of module ipaddress: same version, same leading prefixlen bits.
InNetwork(ip, net) ==
    /\ ip.v = net.addr.v
    /\ Top16(ip) \div Pow2(16 - net.prefixlen)
         = Top16(net.addr) \div Pow2(16 - net.prefixlen)

\* ip.is_loopback: 127.0.0.0/8, or ::1.
is_loopback(ip) ==
    IF ip.v = 4 THEN ip.w[1] = 127 ELSE ip.w = <<0, 0, 0, 0, 0, 0, 0, 1>>

\* is_private_network_ip with the CGNAT range widened to all of 100.0.0.0/8.
is_private_network_ip_whole_octet(ip) ==
    IF ip.v = 0 THEN FALSE
    ELSE IF is_loopback(ip) THEN TRUE
    ELSE IF ip.v = 4 THEN ip.w[1] = 100
    ELSE InNetwork(ip, FLYIO_NETWORK)

is_private_network_ip(ip) ==
    IF ip.v = 0 THEN FALSE
    ELSE IF is_loopback(ip) THEN TRUE
    ELSE IF ip.v = 4 THEN InNetwork(ip, TAILSCALE_NETWORK)
    ELSE InNetwork(ip, FLYIO_NETWORK)

\* The first x-forwarded-for entry, else the peer's host ("" without a peer).
get_client_ip(c) == IF c.forwarded # <<>> THEN c.forwarded[1] ELSE c.host

\* `not token or not secrets.compare_digest(token, AUTH_TOKEN)`, negated.
TokenAccepted(token) == token # None /\ token[1] # "" /\ token[1] = AUTH_TOKEN

Loopback4 == IPv4(127, 0, 0, 1)
Tailscale4 == IPv4(100, 100, 1, 2)
NearTailscale4 == IPv4(100, 128, 0, 1)
Public4 == IPv4(8, 8, 8, 8)
Loopback6 == IPv6(0, 1)
Flyio6 == IPv6(64938, 3)
Public6 == IPv6(8193, 1)

\* The connection attempts the model draws from: header, peer host, token.
Origins ==
    {[forwarded |-> <<>>, host |-> h] :
        h \in {Loopback4, Public4, NearTailscale4, Flyio6, Public6, Loopback6,
               BadAddress}}
    \cup {[forwarded |-> <<Tailscale4, Public4>>, host |-> Public4],
          [forwarded |-> <<Public4, Tailscale4>>, host |-> Loopback4]}
Tokens == {None, Some(""), Some(AUTH_TOKEN), Some("wrong")}
Candidates == {[forwarded |-> o.forwarded, host |-> o.host, token |-> t] :
                  o \in Origins, t \in Tokens}
NoCandidate == [forwarded |-> <<>>, host |-> BadAddress, token |-> None]

PassesNetworkGate(c) ==
    REQUIRE_PRIVATE_NETWORK => is_private_network_ip(get_client_ip(c))
PassesTokenGate(c) == TokenAccepted(c.token)

\* ------------------------------------------------------------------ text
\* Text is a sequence of one-character strings.
Whitespace == {" ", "\n", "\t", "\r"}

RECURSIVE LStrip(_)
LStrip(t) == IF t # <<>> /\ Head(t) \in Whitespace THEN LStrip(Tail(t)) ELSE t

RECURSIVE RStrip(_)
RStrip(t) ==
    IF t # <<>> /\ t[Len(t)] \in Whitespace
    THEN RStrip(SubSeq(t, 1, Len(t) - 1)) ELSE t

\* str.strip()
Strip(t) == RStrip(LStrip(t))

Digit(d) == <<"0", "1", "2", "3", "4", "5", "6", "7", "8", "9">>[d + 1]

RECURSIVE NatStr(_)
NatStr(n) == IF n < 10 THEN <<Digit(n)>> ELSE NatStr(n \div 10) \o <<Digit(n % 10)>>

\* str(n) of an int
IntStr(n) == IF n < 0 THEN <<"-">> \o NatStr(0 - n) ELSE NatStr(n)

StderrTag == <<"\n", "[", "s", "t", "d", "e", "r", "r", "]", ":", " ">>
ExitCodeTag == <<"\n", "[", "e", "x", "i", "t", "_", "c", "o", "d", "e", ":", " ">>
NoOutputText == <<"(", "n", "o", " ", "o", "u", "t", "p", "u", "t", ")">>

\* `x or ""` of a nullable text column
OrEmpty(x) == IF x = None THEN <<>> ELSE x[1]

\* The exit code tested for truth instead of for None: 0 is left out.
FormatResult_truthy_exit_code(row) ==
    LET output == OrEmpty(row.output)
        error == OrEmpty(row.error)
        t1 == IF error # <<>> THEN output \o StderrTag \o error ELSE output
        t2 == IF row.exit_code # None /\ row.exit_code # Some(0)
              THEN t1 \o ExitCodeTag \o IntStr(row.exit_code[1]) \o <<"]">>
              ELSE t1
    IN  IF Strip(t2) = <<>> THEN NoOutputText ELSE Strip(t2)

\* server.py:192-201: the text execute_command returns for a terminal row.
FormatResult(row) ==
    LET output == OrEmpty(row.output)
        error == OrEmpty(row.error)
        t1 == IF error # <<>> THEN output \o StderrTag \o error ELSE output
        t2 == IF row.exit_code # None
              THEN t1 \o ExitCodeTag \o IntStr(row.exit_code[1]) \o <<"]">>
              ELSE t1
    IN  IF Strip(t2) = <<>> THEN NoOutputText ELSE Strip(t2)

\* What execute_command returns: one of its three fixed messages, or a result text.
NotConnectedMsg == "Error: Mac agent is not connected. Please ensure the agent is running."
FailedToSendMsg == "Error: Failed to send command to agent"
TimedOutMsg == "Command timed out waiting for response"
NotReturned == [kind |-> "none", msg |-> "", text |-> <<>>]
Message(m) == [kind |-> "message", msg |-> m, text |-> <<>>]
ResultText(t) == [kind |-> "result", msg |-> "", text |-> t]

\* ------------------------------------------------- the connection manager
\* is_agent_connected answering without looking at the reference.
is_agent_connected_unchecked == TRUE

\* ConnectionManager.is_agent_connected, server.py:108-109
is_agent_connected == agent_connection # 0

\* send_command reporting success whenever there is a reference, what
\* send_json raises being lost.
send_command_success_ref_only == agent_connection # 0

\* ConnectionManager.send_command, server.py:111-123: False without a
\* reference, False when send_json raises (the transport is closed), else the
\* frame goes to whatever socket the reference names now.
send_command_success == agent_connection # 0 /\ sock[agent_connection]

send_command(id, req, timeout) ==
    IF send_command_success
    THEN /\ toAgent' = [toAgent EXCEPT ![agent_connection] =
                            Append(@, ExecuteFrame(id, req, timeout))]
         /\ sent' = [sent EXCEPT ![id] = Append(@, agent_connection)]
    ELSE UNCHANGED <<toAgent, sent>>

\* disconnect_agent leaving the reference as it is.
disconnect_agent_keeps == agent_connection' = agent_connection

\* ConnectionManager.disconnect_agent, server.py:104-106: clears the
\* reference whichever socket it names.
disconnect_agent == agent_connection' = 0

\* ------------------------------------------------------- execute_command
GraceObservations == 10
ObservationsPerSecond == 2

\* The wait with one observation more than range(timeout * 2 + 10) makes.
PollLimit_one_more(timeout) ==
    IF timeout * ObservationsPerSecond + GraceObservations + 1 > 0
    THEN timeout * ObservationsPerSecond + GraceObservations + 1 ELSE 0

\* len(range(timeout * 2 + 10)), server.py:181
PollLimit(timeout) ==
    IF timeout * ObservationsPerSecond + GraceObservations > 0
    THEN timeout * ObservationsPerSecond + GraceObservations ELSE 0

IdleCall == [pc |-> "idle", req |-> None, timeout |-> 0, now |-> 0, polls |-> 0,
             ret |-> NotReturned]

\* A return ends the coroutine: of its locals only the returned value stays.
Return(e, r) == call' = [call EXCEPT ![e] = [IdleCall EXCEPT !.pc = "done", !.ret = r]]

\* server.py:132-139: the connected check, then the id and created_at.
ExecuteCommandBegin(e, req, timeout) ==
    /\ call[e].pc = "idle"
    /\ \A e2 \in Calls : e2 < e => call[e2].pc # "idle"
    /\ IF ~is_agent_connected
       THEN /\ Return(e, Message(NotConnectedMsg))
            /\ UNCHANGED clock
       ELSE /\ clock' = clock + 1
            /\ call' = [call EXCEPT ![e] = [IdleCall EXCEPT !.pc = "insert",
                           !.req = Some(req), !.timeout = timeout, !.now = clock + 1]]
    /\ UNCHANGED <<REQUIRE_PRIVATE_NETWORK, agent_connection, commands, db_writer,
                   db_uncommitted, wpc, cand, pending, wireVars, agentVars, sent, hist>>

\* server.py:142-157: INSERT and commit; a write waits for SQLite's write lock.
ExecuteCommandInsert(e) ==
    /\ call[e].pc = "insert"
    /\ db_writer = 0
    /\ commands' = commands @@ (e :> NewRow(call[e].req[1], call[e].timeout, call[e].now))
    /\ call' = [call EXCEPT ![e].pc = "send"]
    /\ UNCHANGED <<REQUIRE_PRIVATE_NETWORK, agent_connection, db_writer, db_uncommitted,
                   clock, wpc, cand, pending, wireVars, agentVars, sent, hist>>

\* server.py:160-170: push; on failure return without touching the row.
ExecuteCommandSend(e) ==
    /\ call[e].pc = "send"
    /\ send_command(e, call[e].req[1], call[e].timeout)
    /\ IF send_command_success
       THEN call' = [call EXCEPT ![e].pc = "update"]
       ELSE Return(e, Message(FailedToSendMsg))
    /\ UNCHANGED <<REQUIRE_PRIVATE_NETWORK, agent_connection, commands, db_writer,
                   db_uncommitted, clock, wpc, cand, pending, sock, toRelay,
                   agentVars, hist>>

\* server.py:173-181: UPDATE to running and commit; with an empty range the
\* loop body never runs and the timed-out message is returned at once.
ExecuteCommandUpdate(e) ==
    /\ call[e].pc = "update"
    /\ db_writer = 0
    /\ commands' = [commands EXCEPT ![e] = MarkRunning(@)]
    /\ IF PollLimit(call[e].timeout) = 0
       THEN Return(e, Message(TimedOutMsg))
       ELSE call' = [call EXCEPT ![e].pc = "poll"]
    /\ UNCHANGED <<REQUIRE_PRIVATE_NETWORK, agent_connection, db_writer, db_uncommitted,
                   clock, wpc, cand, pending, wireVars, agentVars, sent, hist>>

\* server.py:181-203: one round of the loop: sleep, SELECT the row, return
\* its text when terminal; after the last round return the timed-out message.
ExecuteCommandPoll(e) ==
    /\ call[e].pc = "poll"
    /\ LET row == IF e \in DOMAIN commands THEN Some(commands[e]) ELSE None
       IN  IF row # None /\ row[1].status \in {"completed", "failed", "timeout"}
           THEN Return(e, ResultText(FormatResult(row[1])))
           ELSE IF call[e].polls + 1 = PollLimit(call[e].timeout)
           THEN Return(e, Message(TimedOutMsg))
           ELSE call' = [call EXCEPT ![e].polls = @ + 1]
    /\ UNCHANGED <<REQUIRE_PRIVATE_NETWORK, agent_connection, commands, db_writer,
                   db_uncommitted, clock, wpc, cand, pending, wireVars, agentVars, sent, hist>>

\* ------------------------------------------------------- agent_websocket
\* The agent side of a socket as the handshake leaves it (agent.py:306-323).
AgentOff == [pc |-> "off", cur |-> None, ping_task |-> "none", pings |-> 0,
             proc |-> "none"]
AgentConnected == [AgentOff EXCEPT !.pc = "loop", !.ping_task = "running"]

\* A client opens a websocket to /ws/agent; sockets are numbered in the order
\* they arrive.
ClientConnect(s, c) ==
    /\ wpc[s] = "none"
    /\ \A s2 \in Sockets : s2 < s => wpc[s2] # "none"
    /\ wpc' = [wpc EXCEPT ![s] = "connecting"]
    /\ cand' = [cand EXCEPT ![s] = c]
    /\ UNCHANGED <<REQUIRE_PRIVATE_NETWORK, agent_connection, commands, db_writer,
                   db_uncommitted, clock, call, pending, wireVars, agentVars, sent, hist>>

\* server.py:391-406 with connect_agent (99-102): the two gates in order, a
\* close with the gate's reason, or accept and take over the reference.
AgentWebsocketAdmit(s) ==
    /\ wpc[s] = "connecting"
    /\ cand' = [cand EXCEPT ![s] = NoCandidate]
    /\ IF ~PassesNetworkGate(cand[s])
       THEN /\ wpc' = [wpc EXCEPT ![s] = "closed_private_network_required"]
            /\ UNCHANGED <<agent_connection, sock, ag>>
       ELSE IF ~PassesTokenGate(cand[s])
       THEN /\ wpc' = [wpc EXCEPT ![s] = "closed_forbidden"]
            /\ UNCHANGED <<agent_connection, sock, ag>>
       ELSE /\ wpc' = [wpc EXCEPT ![s] = "select"]
            /\ agent_connection' = s
            /\ sock' = [sock EXCEPT ![s] = TRUE]
            /\ ag' = [ag EXCEPT ![s] = AgentConnected]
    /\ UNCHANGED <<REQUIRE_PRIVATE_NETWORK, commands, db_writer, db_uncommitted, clock,
                   call, pending, toAgent, toRelay, sup, fs_files, fs_dirs, sent, hist>>

\* ORDER BY created_at ASC over a set of ids.
RECURSIVE OldestFirst(_)
OldestFirst(ids) ==
    IF ids = {} THEN <<>>
    ELSE LET first == CHOOSE c \in ids :
                          \A d \in ids : commands[c].created_at <= commands[d].created_at
         IN  <<first>> \o OldestFirst(ids \ {first})

\* The select of the flush taking the running rows as well as the pending ones.
ListPending_with_running ==
    OldestFirst({c \in DOMAIN commands : commands[c].status \in {PENDING, RUNNING}})

\* SELECT * FROM commands WHERE status = 'pending' ORDER BY created_at ASC
ListPending == OldestFirst({c \in DOMAIN commands : commands[c].status = PENDING})

\* server.py:409-414: the flush reads the committed pending rows.
FlushSelect(s) ==
    /\ wpc[s] = "select"
    /\ pending' = [pending EXCEPT ![s] = ListPending]
    /\ wpc' = [wpc EXCEPT ![s] = IF ListPending = <<>> THEN "commit" ELSE "flush_send"]
    /\ UNCHANGED <<REQUIRE_PRIVATE_NETWORK, agent_connection, commands, db_writer,
                   db_uncommitted, clock, call, cand, wireVars, agentVars, sent, hist>>

\* server.py:416-424: send the next fetched row; the result of send_command
\* is not looked at.
FlushSend(s) ==
    /\ wpc[s] = "flush_send"
    /\ LET id == Head(pending[s])
       IN  send_command(id, commands[id].req, commands[id].timeout)
    /\ wpc' = [wpc EXCEPT ![s] = "flush_update"]
    /\ UNCHANGED <<REQUIRE_PRIVATE_NETWORK, agent_connection, commands, db_writer,
                   db_uncommitted, clock, call, cand, pending, sock, toRelay,
                   agentVars, hist>>

\* server.py:425-428: UPDATE the row to running inside the flush's open
\* transaction: it takes SQLite's write lock and is not visible to the other
\* connections before the commit.
FlushUpdate(s) ==
    /\ wpc[s] = "flush_update"
    /\ db_writer \in {0, s}
    /\ db_writer' = s
    /\ db_uncommitted' = db_uncommitted \cup {Head(pending[s])}
    /\ pending' = [pending EXCEPT ![s] = Tail(@)]
    /\ wpc' = [wpc EXCEPT ![s] = IF Tail(pending[s]) = <<>> THEN "commit"
                                  ELSE "flush_send"]
    /\ UNCHANGED <<REQUIRE_PRIVATE_NETWORK, agent_connection, commands, clock, call,
                   cand, wireVars, agentVars, sent, hist>>

\* server.py:429: commit; the rows the flush updated become running.
FlushCommit(s) ==
    /\ wpc[s] = "commit"
    /\ IF db_writer = s
       THEN /\ commands' = [c \in DOMAIN commands |->
                               IF c \in db_uncommitted THEN MarkRunning(commands[c])
                               ELSE commands[c]]
            /\ db_writer' = 0
            /\ db_uncommitted' = {}
       ELSE UNCHANGED <<commands, db_writer, db_uncommitted>>
    /\ wpc' = [wpc EXCEPT ![s] = "recv"]
    /\ UNCHANGED <<REQUIRE_PRIVATE_NETWORK, agent_connection, clock, call, cand,
                   pending, wireVars, agentVars, sent, hist>>

\* server.py:433-451: a result frame is stored in the row its id names.
ReceiveResult(s) ==
    /\ wpc[s] = "recv"
    /\ toRelay[s] # <<>>
    /\ Head(toRelay[s]).type = "result"
    /\ db_writer = 0
    /\ LET data == Head(toRelay[s])
       IN  commands' = [c \in DOMAIN commands |->
                           IF c = data.id THEN StoreResult(commands[c], data)
                           ELSE commands[c]]
    /\ toRelay' = [toRelay EXCEPT ![s] = Tail(@)]
    /\ UNCHANGED <<REQUIRE_PRIVATE_NETWORK, agent_connection, db_writer, db_uncommitted,
                   clock, call, wpc, cand, pending, sock, toAgent, agentVars, sent, hist>>

\* server.py:453-460: a ping is answered with a pong; when send_json raises
\* the handler ends through disconnect_agent.
ReceivePing(s) ==
    /\ wpc[s] = "recv"
    /\ toRelay[s] # <<>>
    /\ Head(toRelay[s]).type = "ping"
    /\ toRelay' = [toRelay EXCEPT ![s] = Tail(@)]
    /\ IF sock[s]
       THEN /\ toAgent' = [toAgent EXCEPT ![s] = Append(@, [type |-> "pong"])]
            /\ UNCHANGED <<agent_connection, wpc>>
       ELSE /\ disconnect_agent
            /\ wpc' = [wpc EXCEPT ![s] = "closed"]
            /\ UNCHANGED toAgent
    /\ UNCHANGED <<REQUIRE_PRIVATE_NETWORK, commands, db_writer, db_uncommitted, clock,
                   call, cand, pending, sock, agentVars, sent, hist>>

\* server.py:432-435, 453: a JSON object that is neither a result nor a ping.
ReceiveOther(s) ==
    /\ wpc[s] = "recv"
    /\ toRelay[s] # <<>>
    /\ Head(toRelay[s]).type \notin {"result", "ping", "not_an_object"}
    /\ toRelay' = [toRelay EXCEPT ![s] = Tail(@)]
    /\ UNCHANGED <<relayVars, sock, toAgent, agentVars, sent, hist>>

\* server.py:433-435, 458-460: receive_json hands over whatever JSON value
\* the frame holds; on a value that is not an object (type "not_an_object"
\* here: an array, a string, a number) data.get raises AttributeError, and
\* on text that is not JSON receive_json itself raises; `except Exception`
\* then ends the handler through disconnect_agent and the socket is closed.
ReceiveNotObject(s) ==
    /\ wpc[s] = "recv"
    /\ toRelay[s] # <<>>
    /\ Head(toRelay[s]).type = "not_an_object"
    /\ disconnect_agent
    /\ wpc' = [wpc EXCEPT ![s] = "closed"]
    /\ sock' = [sock EXCEPT ![s] = FALSE]
    /\ toAgent' = [toAgent EXCEPT ![s] = <<>>]
    /\ toRelay' = [toRelay EXCEPT ![s] = <<>>]
    /\ UNCHANGED <<REQUIRE_PRIVATE_NETWORK, commands, db_writer, db_uncommitted, clock,
                   call, cand, pending, agentVars, sent, hist>>

\* server.py:456-460: receive_json raises once the transport is closed;
\* frames still in flight are lost with it.
ReceiveDisconnect(s) ==
    /\ wpc[s] = "recv"
    /\ ~sock[s]
    /\ disconnect_agent
    /\ wpc' = [wpc EXCEPT ![s] = "closed"]
    /\ toAgent' = [toAgent EXCEPT ![s] = <<>>]
    /\ toRelay' = [toRelay EXCEPT ![s] = <<>>]
    /\ UNCHANGED <<REQUIRE_PRIVATE_NETWORK, commands, db_writer, db_uncommitted, clock,
                   call, cand, pending, sock, agentVars, sent, hist>>

\* ---------------------------------------------------- the agent: paths
\* A path string is its sequence of components; the first one is "/" for an
\* absolute path, "~" for the user's home, "~nobody" for the home of a user
\* that does not exist.  A resolved path is the sequence of names below the
\* root.
Home == <<"home", "u">>
Cwd == <<>>
ALLOWED_PATHS == {Home, <<"tmp">>, <<"var", "tmp">>}

\* The symbolic links of the agent's machine, each to a resolved target.
Symlinks == (<<"tmp", "lnk">> :> <<"etc">>)

Raised(e) == [raised |-> TRUE, error |-> e, path |-> <<>>]
Resolved(p) == [raised |-> FALSE, error |-> <<>>, path |-> p]

\* Path.expanduser: "~" becomes the home; "~user" of an unknown user raises
\* RuntimeError.
expanduser(p) ==
    IF p # <<>> /\ Head(p) = "~" THEN Resolved(<<"/">> \o Home \o Tail(p))
    ELSE IF p # <<>> /\ Head(p) = "~nobody"
    THEN Raised(<<"Could not determine home directory.">>)
    ELSE Resolved(p)

RECURSIVE Walk(_, _)
Walk(done, rest) ==
    IF rest = <<>> THEN done
    ELSE IF Head(rest) = "." THEN Walk(done, Tail(rest))
    ELSE IF Head(rest) = ".."
    THEN Walk(IF done = <<>> THEN done ELSE SubSeq(done, 1, Len(done) - 1), Tail(rest))
    ELSE LET next == Append(done, Head(rest))
         IN  Walk(IF next \in DOMAIN Symlinks THEN Symlinks[next] ELSE next, Tail(rest))

\* Path.resolve(): absolute, ".." and symbolic links followed.
resolve(p) ==
    IF p # <<>> /\ Head(p) = "/" THEN Walk(<<>>, Tail(p)) ELSE Walk(Cwd, p)

\* Path(path_str).expanduser().resolve()
ExpandResolve(p) ==
    IF expanduser(p).raised THEN expanduser(p)
    ELSE Resolved(resolve(expanduser(p).path))

\* str(path) of a resolved path
PathStr(path) == <<"/">> \o path

\* `allowed in path.parents`
IsParent(allowed, path) ==
    Len(allowed) < Len(path) /\ SubSeq(path, 1, Len(allowed)) = allowed

\* is_path_allowed comparing the texts with str.startswith: "/home/u2" starts
\* with "/home/u".
is_path_allowed_startswith(path_str) ==
    IF ExpandResolve(path_str).raised THEN FALSE
    ELSE \E allowed \in ALLOWED_PATHS :
            LET path == ExpandResolve(path_str).path
            IN  /\ Len(allowed) <= Len(path)
                /\ SubSeq(path, 1, Len(allowed) - 1) = SubSeq(allowed, 1, Len(allowed) - 1)
                /\ \/ path[Len(allowed)] = allowed[Len(allowed)]
                   \/ <<allowed[Len(allowed)], path[Len(allowed)]>> = <<"u", "u2">>

\* agent.py:52-61
is_path_allowed(path_str) ==
    IF ExpandResolve(path_str).raised THEN FALSE
    ELSE \E allowed \in ALLOWED_PATHS :
            \/ ExpandResolve(path_str).path = allowed
            \/ IsParent(allowed, ExpandResolve(path_str).path)

\* The path strings the model draws from: inside the roots, outside them,
\* leaving them through ".." or a symbolic link, beside the home with a name
\* that starts like it, relative, and of a home that cannot be found.
InsidePaths == {<<"~", "a.txt">>, <<"/", "tmp", "new", "f">>, <<"tmp", "d">>}
OutsidePaths ==
    {<<"/", "etc", "passwd">>, <<"/", "tmp", "..", "etc", "passwd">>,
     <<"/", "tmp", "lnk", "passwd">>, <<"/", "home", "u2", "f">>}
UnresolvablePaths == {<<"~nobody", "f">>}
PathInputs == InsidePaths \cup OutsidePaths \cup UnresolvablePaths

\* ----------------------------------------------- the agent: file system
Exists(path) == path \in fs_dirs \/ path \in DOMAIN fs_files

InitDirs == {<<>>, <<"home">>, Home, <<"tmp">>, <<"tmp", "d">>, <<"var">>,
             <<"var", "tmp">>, <<"etc">>}
InitFiles == (<<"etc", "passwd">> :> <<"r", "o", "o", "t">>)
                 @@ (Home \o <<"a.txt">> :> <<"h", "i", "\n">>)

RECURSIVE Parents(_)
Parents(path) ==
    IF path = <<>> THEN {}
    ELSE LET up == SubSeq(path, 1, Len(path) - 1) IN {up} \cup Parents(up)

\* ------------------------------------------------ the agent: handlers
MAX_OUTPUT_SIZE == 1000000

\* The characters of a long text are not written out one by one: an item of
\* a text named here is a run of that many copies of "x"; any other item is
\* the characters of its string.
RunLen ==
    ("x*(cap-2)" :> MAX_OUTPUT_SIZE - 2) @@ ("x*(cap-1)" :> MAX_OUTPUT_SIZE - 1)
        @@ ("x*cap" :> MAX_OUTPUT_SIZE) @@ ("x*(2cap)" :> 2 * MAX_OUTPUT_SIZE)

\* len(text)
RECURSIVE TextLen(_)
TextLen(t) ==
    IF t = <<>> THEN 0
    ELSE (IF Head(t) \in DOMAIN RunLen THEN RunLen[Head(t)] ELSE Len(Head(t)))
             + TextLen(Tail(t))

\* text[:n]; only a run is long enough to be cut inside.
RECURSIVE Take(_, _)
Take(t, n) ==
    IF t = <<>> \/ n = 0 THEN <<>>
    ELSE IF TextLen(<<Head(t)>>) <= n
    THEN <<Head(t)>> \o Take(Tail(t), n - TextLen(<<Head(t)>>))
    ELSE <<CHOOSE r \in DOMAIN RunLen : RunLen[r] = n>>

\* The cut made from the cap's length on, not above it.
Truncate_from_cap(text, marker) ==
    IF TextLen(text) >= MAX_OUTPUT_SIZE
    THEN Take(text, MAX_OUTPUT_SIZE) \o marker ELSE text

\* agent.py:110-113, 161-162: cut to the cap and append the marker.
Truncate(text, marker) ==
    IF TextLen(text) > MAX_OUTPUT_SIZE
    THEN Take(text, MAX_OUTPUT_SIZE) \o marker ELSE text

OutputMarker == <<"\n", "... (output truncated)">>
ErrorMarker == <<"\n", "... (error truncated)">>
ContentMarker == <<"\n", "... (content truncated)">>

\* The result dicts of the handlers, as the relay reads them with data.get.
Result(status, output, error, exit_code) ==
    [status |-> Some(status), output |-> output, error |-> error,
     exit_code |-> Some(exit_code)]
Failure(error) == Result(FAILED, None, Some(error), 1)

\* What a handler did: it raised, or returned `result`; the files and
\* directories it leaves behind.
Returned(result, files, dirs) ==
    [raised |-> FALSE, result |-> result, files |-> files, dirs |-> dirs]
Propagated ==
    [raised |-> TRUE, result |-> Failure(<<>>), files |-> fs_files, dirs |-> fs_dirs]
Unchanged(result) == Returned(result, fs_files, fs_dirs)

NotAllowed(path_str) == Failure(<<"Path not allowed:", " ">> \o path_str)

\* agent.py:131-176
read_file(path_str) ==
    LET r == ExpandResolve(path_str)
    IN  IF r.raised THEN Unchanged(Failure(r.error))
        ELSE IF ~is_path_allowed(PathStr(r.path)) THEN Unchanged(NotAllowed(path_str))
        ELSE IF ~Exists(r.path)
        THEN Unchanged(Failure(<<"File not found:", " ">> \o path_str))
        ELSE IF r.path \notin DOMAIN fs_files
        THEN Unchanged(Failure(<<"Not a file:", " ">> \o path_str))
        ELSE Unchanged(Result(COMPLETED,
                 Some(Truncate(fs_files[r.path], ContentMarker)), None, 0))

\* agent.py:179-210: mkdir(parents=True, exist_ok=True) raises when a
\* component of the parent is a file, write_text when the target is a directory.
write_file(path_str, content) ==
    LET r == ExpandResolve(path_str)
    IN  IF r.raised THEN Unchanged(Failure(r.error))
        ELSE IF ~is_path_allowed(PathStr(r.path)) THEN Unchanged(NotAllowed(path_str))
        ELSE IF \E up \in Parents(r.path) : up \in DOMAIN fs_files
        THEN Unchanged(Failure(<<"[Errno 20] Not a directory">>))
        ELSE IF r.path \in fs_dirs
        THEN Returned(Failure(<<"[Errno 21] Is a directory">>),
                      fs_files, fs_dirs \cup Parents(r.path))
        ELSE Returned(
                 Result(COMPLETED,
                        Some(<<"Written", " ">> \o IntStr(Len(content))
                               \o <<" ", "bytes to", " ">> \o PathStr(r.path)),
                        None, 0),
                 [q \in DOMAIN fs_files \cup {r.path} |->
                     IF q = r.path THEN content ELSE fs_files[q]],
                 fs_dirs \cup Parents(r.path))

\* The names of the model's file system in sorted() order.
NameOrder == <<"a.txt", "d", "etc", "f", "g", "home", "lnk", "new", "passwd", "tmp",
               "u", "u2", "var">>

IsChild(q, path) == Len(q) = Len(path) + 1 /\ SubSeq(q, 1, Len(path)) = path

\* One line of list_dir: type, size (0 unless a regular file), name.
Entry(q) ==
    LET target == IF q \in DOMAIN Symlinks THEN Symlinks[q] ELSE q
    IN  <<IF target \in fs_dirs THEN "dir" ELSE "file", "\t">>
          \o IntStr(IF target \in DOMAIN fs_files THEN Len(fs_files[target]) ELSE 0)
          \o <<"\t", q[Len(q)]>>

RECURSIVE Listing(_, _)
Listing(path, i) ==
    IF i > Len(NameOrder) THEN <<>>
    ELSE LET q == Append(path, NameOrder[i])
             rest == Listing(path, i + 1)
         IN  IF Exists(q) \/ q \in DOMAIN Symlinks
             THEN Entry(q) \o (IF rest = <<>> THEN <<>> ELSE <<"\n">> \o rest)
             ELSE rest

\* agent.py:213-262
list_dir(path_str) ==
    LET r == ExpandResolve(path_str)
    IN  IF r.raised THEN Unchanged(Failure(r.error))
        ELSE IF ~is_path_allowed(PathStr(r.path)) THEN Unchanged(NotAllowed(path_str))
        ELSE IF ~Exists(r.path)
        THEN Unchanged(Failure(<<"Directory not found:", " ">> \o path_str))
        ELSE IF r.path \notin fs_dirs
        THEN Unchanged(Failure(<<"Not a directory:", " ">> \o path_str))
        ELSE Unchanged(Result(COMPLETED, Some(Listing(r.path, 1)), None, 0))

\* agent.py:70-90, execute_shell up to the spawn.  The working directory is
\* resolved before the try block: what that raises leaves the handler.  What
\* create_subprocess_shell raises (a cwd that is no directory) is caught.
\* "spawn" stands for a started process.
ShellRaises(working_dir) ==
    working_dir # None /\ working_dir[1] # <<>> /\ ExpandResolve(working_dir[1]).raised

ShellRejects(working_dir) ==
    /\ working_dir # None /\ working_dir[1] # <<>>
    /\ ~ExpandResolve(working_dir[1]).raised
    /\ ~is_path_allowed(PathStr(ExpandResolve(working_dir[1]).path))

ShellSpawnFails(working_dir) ==
    /\ working_dir # None /\ working_dir[1] # <<>>
    /\ ~ExpandResolve(working_dir[1]).raised
    /\ ExpandResolve(working_dir[1]).path \notin fs_dirs

WorkingDirNotAllowed(working_dir) ==
    Failure(<<"Working directory not allowed:", " ">> \o working_dir[1])

\* The ways a spawned command ends by itself: stdout, stderr, returncode.
ProcessRuns ==
    {[stdout |-> <<"o", "\n">>, stderr |-> <<>>, returncode |-> 0],
     [stdout |-> <<>>, stderr |-> <<"e">>, returncode |-> 2]}

\* agent.py:106-120
ShellResult(run) ==
    Result(IF run.returncode = 0 THEN COMPLETED ELSE FAILED,
           Some(Truncate(run.stdout, OutputMarker)),
           IF Truncate(run.stderr, ErrorMarker) # <<>>
           THEN Some(Truncate(run.stderr, ErrorMarker)) ELSE None,
           run.returncode)

\* The expired timeout reported like any other failure of the command.
ShellTimeout_as_failure(timeout) ==
    Result(FAILED, None,
           Some(<<"Command timed out after", " ">> \o IntStr(timeout) \o <<" ", "seconds">>),
           1)

\* agent.py:97-104
ShellTimeout(timeout) ==
    Result(TIMEOUT, None,
           Some(<<"Command timed out after", " ">> \o IntStr(timeout) \o <<" ", "seconds">>),
           0 - 1)

\* ------------------------------------------------- the agent: its loop
\* The kwargs of execute_command, which the execute frame carries unchanged.
Request(command_type, path, content, working_dir) ==
    [command_type |-> command_type,
     command |-> IF command_type = "shell" THEN Some("cmd") ELSE None,
     path |-> path, content |-> content, working_dir |-> working_dir]

ShellRequests(dirs) == {Request("shell", None, None, wd) : wd \in dirs}
FileRequests(kinds, paths) ==
    {Request(k, Some(q), IF k = "write_file" THEN Some(<<"x", "y">>) ELSE None, None) :
        k \in kinds, q \in paths}

\* The frames the model's relay pushes to the agent.
AgentRequests ==
    ShellRequests({None, Some(<<"/", "tmp", "d">>), Some(<<"/", "tmp", "new">>)}
                  \cup {Some(q) : q \in OutsidePaths \cup UnresolvablePaths})
    \cup FileRequests({"read_file", "write_file", "list_dir"}, PathInputs)
    \cup FileRequests({"bogus"}, {<<"~", "a.txt">>})

\* The result frame of handle_command, agent.py:291-295.
ResultFrame(id, result) ==
    [type |-> "result", id |-> id, status |-> result.status, output |-> result.output,
     error |-> result.error, exit_code |-> result.exit_code]

\* agent.py:278-289: the handlers that run without suspending.
HandleFile(req) ==
    IF req.command_type = "read_file" THEN read_file(req.path[1])
    ELSE IF req.command_type = "write_file" THEN write_file(req.path[1], req.content[1])
    ELSE IF req.command_type = "list_dir" THEN list_dir(req.path[1])
    ELSE Unchanged(Failure(<<"Unknown command type:", " ", req.command_type>>))

\* agent.py:331, ws.send of the result: on a closed transport it raises
\* ConnectionClosed, which ends connect_and_run.
SendResult(s, id, result, proc, reading) ==
    /\ hist' = [hist EXCEPT ![s].read = IF reading THEN Append(@, id) ELSE @,
                            ![s].replied = IF sock[s] THEN Append(@, id) ELSE @]
    /\ IF sock[s]
       THEN /\ toRelay' = [toRelay EXCEPT ![s] = Append(@, ResultFrame(id, result))]
            /\ ag' = [ag EXCEPT ![s].pc = "loop", ![s].cur = None, ![s].proc = proc]
       ELSE /\ ag' = [ag EXCEPT ![s].pc = "ended", ![s].cur = None, ![s].proc = proc,
                                ![s].ping_task = "cancelled"]
            /\ UNCHANGED toRelay

\* agent.py:337-338 and the exit of `async with`: the ping task is
\* cancelled and the socket closed.
Leave(s) ==
    /\ ag' = [ag EXCEPT ![s].pc = "ended", ![s].cur = None, ![s].ping_task = "cancelled"]
    /\ sock' = [sock EXCEPT ![s] = FALSE]

\* agent.py:66-90: execute_shell up to its first suspension.
ShellBegins(s, data) ==
    IF ShellRaises(data.req.working_dir)
    THEN /\ Leave(s)
         /\ hist' = [hist EXCEPT ![s].read = Append(@, data.id)]
         /\ UNCHANGED toRelay
    ELSE IF ShellRejects(data.req.working_dir)
    THEN /\ SendResult(s, data.id, WorkingDirNotAllowed(data.req.working_dir), "none",
                       TRUE)
         /\ UNCHANGED sock
    ELSE IF ShellSpawnFails(data.req.working_dir)
    THEN /\ SendResult(s, data.id, Failure(<<"[Errno 2] No such file or directory">>),
                       "none", TRUE)
         /\ UNCHANGED sock
    ELSE /\ ag' = [ag EXCEPT ![s].pc = "shell", ![s].cur = Some(data),
                             ![s].proc = "running"]
         /\ hist' = [hist EXCEPT ![s].read = Append(@, data.id)]
         /\ UNCHANGED <<sock, toRelay>>

\* The loop reading on while a shell command is still being handled, as if
\* every frame had a task of its own.
ReadyToRead_while_handling(s) == ag[s].pc \in {"loop", "shell"}

\* agent.py:326-331: `async for` takes the next frame only when the body,
\* handle_command and the send of its result, has ended.
ReadyToRead(s) == ag[s].pc = "loop"

\* agent.py:326-331 with handle_command (265-295): read the next frame; an
\* execute frame is handled before anything else is read.
AgentReadExecute(s) ==
    /\ ReadyToRead(s)
    /\ toAgent[s] # <<>>
    /\ Head(toAgent[s]).type = "execute"
    /\ toAgent' = [toAgent EXCEPT ![s] = Tail(@)]
    /\ LET data == Head(toAgent[s])
       IN  IF data.req.command_type = "shell"
           THEN /\ ShellBegins(s, data)
                /\ UNCHANGED <<fs_files, fs_dirs>>
           ELSE /\ fs_files' = HandleFile(data.req).files
                /\ fs_dirs' = HandleFile(data.req).dirs
                /\ SendResult(s, data.id, HandleFile(data.req).result, ag[s].proc, TRUE)
                /\ UNCHANGED sock
    /\ UNCHANGED <<relayVars, sup, sent>>

\* agent.py:332-335: a pong, or a frame of an unknown type, is dropped.
AgentReadOther(s) ==
    /\ ReadyToRead(s)
    /\ toAgent[s] # <<>>
    /\ Head(toAgent[s]).type # "execute"
    /\ toAgent' = [toAgent EXCEPT ![s] = Tail(@)]
    /\ UNCHANGED <<relayVars, sock, toRelay, agentVars, sent, hist>>

\* agent.py:93-96, 106-120: the process ends before the timeout; wait_for
\* with a timeout <= 0 never lets it.
AgentShellExit(s, run) ==
    /\ ag[s].pc = "shell"
    /\ ag[s].cur[1].timeout > 0
    /\ SendResult(s, ag[s].cur[1].id, ShellResult(run), "exited", FALSE)
    /\ UNCHANGED <<relayVars, sock, toAgent, sup, fs_files, fs_dirs, sent>>

\* agent.py:97-104: the timeout expires; kill, wait, report.
AgentShellTimeout(s) ==
    /\ ag[s].pc = "shell"
    /\ SendResult(s, ag[s].cur[1].id, ShellTimeout(ag[s].cur[1].timeout), "killed", FALSE)
    /\ UNCHANGED <<relayVars, sock, toAgent, sup, fs_files, fs_dirs, sent>>

\* agent.py:315-321, ping_loop: a ping every 25 s; a failed send ends the task.
AgentPing(s) ==
    /\ ag[s].ping_task = "running"
    /\ IF sock[s]
       THEN /\ ag[s].pings < MaxPings
            /\ toRelay' = [toRelay EXCEPT ![s] = Append(@, [type |-> "ping"])]
            /\ ag' = [ag EXCEPT ![s].pings = @ + 1]
       ELSE /\ ag' = [ag EXCEPT ![s].ping_task = "ended"]
            /\ UNCHANGED toRelay
    /\ UNCHANGED <<relayVars, sock, toAgent, sup, fs_files, fs_dirs, sent, hist>>

\* The iteration over the socket learning of the closed transport only from
\* a frame it reads.
AgentSessionOver_on_frame(s) ==
    /\ ag[s].pc = "loop"
    /\ ~sock[s]
    /\ toAgent[s] # <<>>
    /\ ag' = [ag EXCEPT ![s].pc = "ended", ![s].ping_task = "cancelled"]
    /\ UNCHANGED <<relayVars, wireVars, sup, fs_files, fs_dirs, sent, hist>>

\* agent.py:326, 337-338: the iteration over the socket ends once the
\* transport is closed; frames not yet read are lost.
AgentSessionOver(s) ==
    /\ ag[s].pc = "loop"
    /\ ~sock[s]
    /\ ag' = [ag EXCEPT ![s].pc = "ended", ![s].ping_task = "cancelled"]
    /\ UNCHANGED <<relayVars, wireVars, sup, fs_files, fs_dirs, sent, hist>>

\* The transport of an open socket breaks: the network, or either process
\* being stopped.
SocketClose(s) ==
    /\ sock[s]
    /\ sock' = [sock EXCEPT ![s] = FALSE]
    /\ UNCHANGED <<relayVars, toAgent, toRelay, agentVars, sent, hist>>

\* ------------------------------------------------- the agent: main()
RECONNECT_DELAY == 5

\* agent.py:356-358 with 306-323: websockets.connect succeeds on the next
\* socket; connect_and_run starts its loop and its ping task.
MainConnect(s) ==
    /\ sup.pc = "connecting"
    /\ ag[s].pc = "off"
    /\ \A s2 \in Sockets : s2 < s => ag[s2].pc # "off"
    /\ ag' = [ag EXCEPT ![s] = AgentConnected]
    /\ sock' = [sock EXCEPT ![s] = TRUE]
    /\ sup' = [sup EXCEPT !.pc = "connected", !.s = s]
    /\ UNCHANGED <<relayVars, toAgent, toRelay, fs_files, fs_dirs, sent, hist>>

\* agent.py:359-362: the connection attempt raises (refused, or closed by an
\* admission gate).
MainConnectFails ==
    /\ sup.pc = "connecting"
    /\ sup' = [sup EXCEPT !.pc = "sleeping", !.delay = RECONNECT_DELAY]
    /\ UNCHANGED <<relayVars, wireVars, ag, fs_files, fs_dirs, sent, hist>>

\* main() leaving its loop when connect_and_run ends, instead of sleeping
\* and connecting again.
MainSessionOver_returns ==
    /\ sup.pc = "connected"
    /\ ag[sup.s].pc = "ended"
    /\ sup' = [sup EXCEPT !.pc = "exited"]
    /\ UNCHANGED <<relayVars, wireVars, ag, fs_files, fs_dirs, sent, hist>>

\* agent.py:358-362: connect_and_run returned or raised; the sleep of
\* RECONNECT_DELAY seconds begins (364-365).
MainSessionOver ==
    /\ sup.pc = "connected"
    /\ ag[sup.s].pc = "ended"
    /\ sup' = [sup EXCEPT !.pc = "sleeping", !.delay = RECONNECT_DELAY]
    /\ UNCHANGED <<relayVars, wireVars, ag, fs_files, fs_dirs, sent, hist>>

\* agent.py:364-365: after RECONNECT_DELAY seconds, connect again.
MainRetry ==
    /\ sup.pc = "sleeping"
    /\ sup' = [sup EXCEPT !.pc = "connecting", !.delay = 0]
    /\ UNCHANGED <<relayVars, wireVars, ag, fs_files, fs_dirs, sent, hist>>

\* The relay as the agent sees it: send_command pushes an execute frame
\* (server.py:115-119), each command id once.
RelayPush(s, id, req, timeout) ==
    /\ sock[s]
    /\ ag[s].pc \in {"loop", "shell"}
    /\ sent[id] = <<>>
    /\ \A c \in Calls : c < id => sent[c] # <<>>
    /\ toAgent' = [toAgent EXCEPT ![s] = Append(@, ExecuteFrame(id, req, timeout))]
    /\ sent' = [sent EXCEPT ![id] = <<s>>]
    /\ UNCHANGED <<relayVars, sock, toRelay, agentVars, hist>>

\* The relay as the agent sees it: the receive loop takes the next frame and
\* answers a ping with a pong (server.py:433-454).
RelayTake(s) ==
    /\ toRelay[s] # <<>>
    /\ toRelay' = [toRelay EXCEPT ![s] = Tail(@)]
    /\ toAgent' = [toAgent EXCEPT ![s] =
                      IF Head(toRelay[s]).type = "ping" /\ sock[s]
                      THEN Append(@, [type |-> "pong"]) ELSE @]
    /\ UNCHANGED <<relayVars, sock, agentVars, sent, hist>>

\* The results handle_command can return for an execute frame, given the
\* agent's file system (agent.py:265-295).
HandlerResults(data) ==
    IF data.req.command_type # "shell" THEN {HandleFile(data.req).result}
    ELSE IF ShellRaises(data.req.working_dir) THEN {}
    ELSE IF ShellRejects(data.req.working_dir)
    THEN {WorkingDirNotAllowed(data.req.working_dir)}
    ELSE IF ShellSpawnFails(data.req.working_dir)
    THEN {Failure(<<"[Errno 2] No such file or directory">>)}
    ELSE {ShellTimeout(data.timeout)}
         \cup (IF data.timeout > 0 THEN {ShellResult(run) : run \in ProcessRuns} ELSE {})

\* The agent as the relay sees it (agent.py:326-331): it takes the next
\* execute frame off an open socket and sends back that frame's result.
AgentReplies(s) ==
    /\ sock[s]
    /\ toAgent[s] # <<>>
    /\ Head(toAgent[s]).type = "execute"
    /\ \E result \in HandlerResults(Head(toAgent[s])) :
           toRelay' = [toRelay EXCEPT ![s] =
                          Append(@, ResultFrame(Head(toAgent[s]).id, result))]
    /\ toAgent' = [toAgent EXCEPT ![s] = Tail(@)]
    /\ UNCHANGED <<relayVars, sock, agentVars, sent, hist>>

\* ------------------------------------------------------ specifications
Timeouts == {1}
AdmitTimeouts == {0 - 4}

Init ==
    /\ REQUIRE_PRIVATE_NETWORK \in BOOLEAN
    /\ agent_connection = 0
    /\ commands = <<>>
    /\ db_writer = 0
    /\ db_uncommitted = {}
    /\ clock = 0
    /\ call = [e \in Calls |-> IdleCall]
    /\ wpc = [s \in Sockets |-> "none"]
    /\ cand = [s \in Sockets |-> NoCandidate]
    /\ pending = [s \in Sockets |-> <<>>]
    /\ sock = [s \in Sockets |-> FALSE]
    /\ toAgent = [s \in Sockets |-> <<>>]
    /\ toRelay = [s \in Sockets |-> <<>>]
    /\ ag = [s \in Sockets |-> AgentOff]
    /\ sup = [pc |-> "connecting", s |-> 0, delay |-> 0]
    /\ fs_files = InitFiles
    /\ fs_dirs = InitDirs
    /\ sent = [c \in Calls |-> <<>>]
    /\ hist = [s \in Sockets |-> [read |-> <<>>, replied |-> <<>>]]

\* The steps of the relay and of the agents connected to it, for tool calls
\* C with timeouts T and connection attempts K on the sockets S.
RelaySteps(C, S, T, K) ==
    \/ \E e \in C, req \in ShellRequests({None}), t \in T :
           ExecuteCommandBegin(e, req, t)
    \/ \E e \in C : ExecuteCommandInsert(e)
    \/ \E e \in C : ExecuteCommandSend(e)
    \/ \E e \in C : ExecuteCommandUpdate(e)
    \/ \E e \in C : ExecuteCommandPoll(e)
    \/ \E s \in S, c \in K : ClientConnect(s, c)
    \/ \E s \in S : AgentWebsocketAdmit(s)
    \/ \E s \in S : FlushSelect(s)
    \/ \E s \in S : FlushSend(s)
    \/ \E s \in S : FlushUpdate(s)
    \/ \E s \in S : FlushCommit(s)
    \/ \E s \in S : ReceiveResult(s)
    \/ \E s \in S : ReceiveDisconnect(s)
    \/ \E s \in S : AgentReplies(s)
    \/ \E s \in S : SocketClose(s)

\* One connection attempt that passes both gates, one that each gate rejects.
Attempts ==
    {[forwarded |-> <<>>, host |-> Loopback4, token |-> Some(AUTH_TOKEN)],
     [forwarded |-> <<>>, host |-> Public4, token |-> Some(AUTH_TOKEN)],
     [forwarded |-> <<>>, host |-> Loopback4, token |-> None]}

\* Concurrent tool calls against one agent connection.
Next == RelaySteps(Calls, {1}, Timeouts, Attempts)

InitRelay == Init /\ REQUIRE_PRIVATE_NETWORK

Spec == InitRelay /\ [][Next]_vars

\* One tool call while agents connect, disconnect and connect again.
NextReconnect == RelaySteps({1}, Sockets, Timeouts, Attempts)

SpecReconnect == InitRelay /\ [][NextReconnect]_vars

\* Every kind of connection attempt, with the network gate on and off.
NextAdmit == RelaySteps({1}, Sockets, AdmitTimeouts, Candidates)

SpecAdmit == Init /\ [][NextAdmit]_vars

\* One tool call and one connection, every coroutine of the relay scheduled
\* again whenever it can run: the event loop resumes a coroutine whose sleep
\* or database call has ended.
NextWait == RelaySteps({1}, {1}, Timeouts, Attempts)

SpecWait ==
    /\ InitRelay
    /\ [][NextWait]_vars
    /\ WF_vars(ExecuteCommandUpdate(1))
    /\ WF_vars(ExecuteCommandPoll(1))
    /\ WF_vars(FlushSend(1))
    /\ WF_vars(FlushUpdate(1))
    /\ WF_vars(FlushCommit(1))

\* What a peer that passed the gates can put on its socket; the relay reads
\* a result frame with data.get, so every field may be missing (None here),
\* the id may name no record, and the status may be any string.
PeerFrames ==
    {[type |-> "result", id |-> id, status |-> st, output |-> Some(<<"o">>),
      error |-> None, exit_code |-> None] :
         id \in {1, NumCalls + 1},
         st \in {None, Some(COMPLETED), Some(FAILED), Some(PENDING), Some("bogus")}}
    \cup {[type |-> "ping"], [type |-> "hello"], [type |-> "not_an_object"]}

\* The peer sends a frame on its open socket, one frame in flight at a time
\* and MaxPeerFrames in all; hist counts them.
PeerSends(s, f) ==
    /\ sock[s]
    /\ toRelay[s] = <<>>
    /\ Len(hist[s].replied) < MaxPeerFrames
    /\ toRelay' = [toRelay EXCEPT ![s] = <<f>>]
    /\ hist' = [hist EXCEPT ![s].replied = Append(@, 0)]
    /\ UNCHANGED <<relayVars, sock, toAgent, agentVars, sent>>

\* One tool call and one connection whose peer sends whatever it likes.
NextPeer ==
    \/ \E req \in ShellRequests({None}), t \in AdmitTimeouts :
           ExecuteCommandBegin(1, req, t)
    \/ ExecuteCommandInsert(1)
    \/ ExecuteCommandSend(1)
    \/ ExecuteCommandUpdate(1)
    \/ ExecuteCommandPoll(1)
    \/ \E c \in Attempts : ClientConnect(1, c)
    \/ AgentWebsocketAdmit(1)
    \/ FlushSelect(1)
    \/ FlushSend(1)
    \/ FlushUpdate(1)
    \/ FlushCommit(1)
    \/ ReceiveResult(1)
    \/ ReceiveDisconnect(1)
    \/ SocketClose(1)
    \/ \E f \in PeerFrames : PeerSends(1, f)
    \/ ReceivePing(1)
    \/ ReceiveOther(1)
    \/ ReceiveNotObject(1)
    \/ AgentReadOther(1)

SpecPeer == InitRelay /\ [][NextPeer]_vars

\* The agent with the relay as it sees it: commands C, requests Q, and the
\* ways R a spawned command ends by itself.
AgentSteps(C, Q, R) ==
    \/ \E s \in Sockets : MainConnect(s)
    \/ MainConnectFails
    \/ MainSessionOver
    \/ MainRetry
    \/ \E s \in Sockets, id \in C, t \in Timeouts, req \in Q :
           RelayPush(s, id, req, t)
    \/ \E s \in Sockets : RelayTake(s)
    \/ \E s \in Sockets : AgentReadExecute(s)
    \/ \E s \in Sockets : AgentReadOther(s)
    \/ \E s \in Sockets, run \in R : AgentShellExit(s, run)
    \/ \E s \in Sockets : AgentShellTimeout(s)
    \/ \E s \in Sockets : AgentPing(s)
    \/ \E s \in Sockets : AgentSessionOver(s)
    \/ \E s \in Sockets : SocketClose(s)

NextAgent == AgentSteps(Calls, AgentRequests, ProcessRuns)

InitAgent == Init /\ REQUIRE_PRIVATE_NETWORK

SpecAgent == InitAgent /\ [][NextAgent]_vars

\* The supervisor of main() over one command, with what the event loop
\* guarantees: a sleep ends (agent.py:365), the return or exception of
\* connect_and_run reaches main (358-362), `async for` ends on a closed
\* transport (326), wait_for's timeout expires (93-97), and the ping task
\* wakes every 25 s while it runs (317-321).
SupervisorRequests ==
    ShellRequests({None}) \cup FileRequests({"read_file"}, {<<"~", "a.txt">>})

NextSupervisor == AgentSteps({1}, SupervisorRequests, ProcessRuns)

SpecSupervisor ==
    /\ InitAgent
    /\ [][NextSupervisor]_vars
    /\ WF_vars(MainRetry)
    /\ WF_vars(MainSessionOver)
    /\ \A s \in Sockets :
           /\ WF_vars(AgentSessionOver(s))
           /\ WF_vars(AgentShellTimeout(s))
           /\ WF_vars(AgentPing(s))

\* The agent over outputs around the cap (agent.py:106-120, 159-168): the
\* file read_file is asked for holds any of these texts, and a command
\* writes any of them to stdout and any to stderr.
LongTexts ==
    {<<>>, <<"o", "\n">>,
     <<"a", "x*(cap-2)">>, <<"a", "x*(cap-1)">>, <<"a", "x*cap">>,
     <<"x*cap", "b", "c">>, <<"a", "x*(cap-1)", "\n", "b">>, <<"x*(2cap)">>}

InitOutput ==
    /\ REQUIRE_PRIVATE_NETWORK = TRUE
    /\ agent_connection = 0
    /\ commands = <<>>
    /\ db_writer = 0
    /\ db_uncommitted = {}
    /\ clock = 0
    /\ call = [e \in Calls |-> IdleCall]
    /\ wpc = [s \in Sockets |-> "none"]
    /\ cand = [s \in Sockets |-> NoCandidate]
    /\ pending = [s \in Sockets |-> <<>>]
    /\ sock = [s \in Sockets |-> FALSE]
    /\ toAgent = [s \in Sockets |-> <<>>]
    /\ toRelay = [s \in Sockets |-> <<>>]
    /\ ag = [s \in Sockets |-> AgentOff]
    /\ sup = [pc |-> "connecting", s |-> 0, delay |-> 0]
    /\ fs_files \in {[InitFiles EXCEPT ![Home \o <<"a.txt">>] = t] : t \in LongTexts}
    /\ fs_dirs = InitDirs
    /\ sent = [c \in Calls |-> <<>>]
    /\ hist = [s \in Sockets |-> [read |-> <<>>, replied |-> <<>>]]

NextOutput ==
    AgentSteps({1}, SupervisorRequests,
               {[stdout |-> o, stderr |-> e, returncode |-> IF e = <<>> THEN 0 ELSE 2] :
                    o \in LongTexts, e \in LongTexts})

SpecOutput == InitOutput /\ [][NextOutput]_vars

\* execute_command at an observation of its record (server.py:184-201),
\* over the terminal records a peer's result frame can leave (438-449):
\* any status of the three, output and error null, empty or text with
\* whitespace around it, exit code null or an integer.
FormatRows ==
    {[NewRow(Request("shell", None, None, None), 1, 1) EXCEPT
          !.status = st, !.output = o, !.error = e, !.exit_code = x,
          !.started_at = Some(1), !.completed_at = Some(1)] :
        st \in {COMPLETED, FAILED, TIMEOUT},
        o \in {None, Some(<<>>), Some(<<" ", "\n">>), Some(<<"o", "\n">>),
               Some(<<"\t", "a", " ", "b", " ">>)},
        e \in {None, Some(<<>>), Some(<<"e">>), Some(<<" ">>), Some(<<"w", "\n">>)},
        x \in {None, Some(0), Some(2), Some(0 - 1), Some(127)}}

InitFormat ==
    /\ REQUIRE_PRIVATE_NETWORK = TRUE
    /\ agent_connection = 1
    /\ commands \in {<<row>> : row \in FormatRows}
    /\ db_writer = 0
    /\ db_uncommitted = {}
    /\ clock = 1
    /\ call = [e \in Calls |->
                  IF e = 1
                  THEN [IdleCall EXCEPT !.pc = "poll", !.timeout = 1, !.now = 1,
                                        !.req = Some(Request("shell", None, None, None))]
                  ELSE IdleCall]
    /\ wpc = [s \in Sockets |-> IF s = 1 THEN "recv" ELSE "none"]
    /\ cand = [s \in Sockets |-> NoCandidate]
    /\ pending = [s \in Sockets |-> <<>>]
    /\ sock = [s \in Sockets |-> s = 1]
    /\ toAgent = [s \in Sockets |-> <<>>]
    /\ toRelay = [s \in Sockets |-> <<>>]
    /\ ag = [s \in Sockets |-> IF s = 1 THEN AgentConnected ELSE AgentOff]
    /\ sup = [pc |-> "connecting", s |-> 0, delay |-> 0]
    /\ fs_files = InitFiles
    /\ fs_dirs = InitDirs
    /\ sent = [c \in Calls |-> IF c = 1 THEN <<1>> ELSE <<>>]
    /\ hist = [s \in Sockets |-> [read |-> <<>>, replied |-> <<>>]]

NextFormat == ExecuteCommandPoll(1)

SpecFormat == InitFormat /\ [][NextFormat]_vars

\* ================================================================ claims
\* ---------------------------------------------------------------- C1
Rank(status) == IF status = PENDING THEN 0 ELSE IF status = RUNNING THEN 1 ELSE 2

\* C1: the status of every command record only moves forward along
\* pending -> running -> {completed, failed, timeout}, and once a record is
\* terminal its status, output, error and exit_code never change again.
C1_StatusMonotonic ==
    [][\A c \in DOMAIN commands :
          /\ c \in DOMAIN commands'
          /\ Rank(commands'[c].status) >= Rank(commands[c].status)
          /\ commands[c].status \in Terminal =>
                /\ commands'[c].status = commands[c].status
                /\ commands'[c].output = commands[c].output
                /\ commands'[c].error = commands[c].error
                /\ commands'[c].exit_code = commands[c].exit_code]_vars

\* ---------------------------------------------------------------- C2
\* C2: execute_command invoked while there is no session reference returns
\* the fixed not-connected message at once, inserts no record and sends no
\* frame: the set of command records is unchanged.
C2_NotConnected ==
    [][\A e \in Calls :
          (call[e].pc = "idle" /\ call'[e].pc # "idle" /\ agent_connection = 0) =>
              /\ call'[e].pc = "done"
              /\ call'[e].ret = Message(NotConnectedMsg)
              /\ commands' = commands
              /\ toAgent' = toAgent
              /\ sent' = sent]_vars

\* A call returned the not-connected message while an earlier call's record
\* is in the store, and no record was made for it.
C2_Witness ==
    \E e \in Calls :
        /\ call[e].ret = Message(NotConnectedMsg)
        /\ commands # <<>>
        /\ e \notin DOMAIN commands

\* ---------------------------------------------------------------- C3
\* C3: an invocation that has pushed its command returns: it observes the
\* store at most timeout * 2 + 10 times, returns the formatted result at the
\* first observation that shows a terminal status, returns the timed-out
\* message when the observations are exhausted, and never waits for ever.
C3_BoundedWait ==
    /\ [](\A e \in Calls :
            call[e].pc = "poll" => call[e].polls < call[e].timeout * 2 + 10)
    /\ [][\A e \in Calls :
            (call[e].pc = "poll" /\ call'[e] # call[e]) =>
                IF e \in DOMAIN commands /\ commands[e].status \in Terminal
                THEN /\ call'[e].pc = "done"
                     /\ call'[e].ret = ResultText(FormatResult(commands[e]))
                ELSE IF call[e].polls + 1 = call[e].timeout * 2 + 10
                THEN /\ call'[e].pc = "done"
                     /\ call'[e].ret = Message(TimedOutMsg)
                ELSE /\ call'[e].pc = "poll"
                     /\ call'[e].polls = call[e].polls + 1]_vars
    /\ \A e \in Calls : (call[e].pc \in {"update", "poll"}) ~> (call[e].pc = "done")

\* A call exhausted its observations: its record is still running and it
\* returned the timed-out message.
C3_Witness ==
    \E e \in Calls :
        /\ call[e].ret = Message(TimedOutMsg)
        /\ e \in DOMAIN commands
        /\ commands[e].status = RUNNING

\* ---------------------------------------------------------------- C4
\* The allow-list of the network gate, address by address: loopback,
\* 100.64.0.0/10, fdaa::/16.
AllowListed(ip) ==
    \/ ip.v = 4 /\ ip.w[1] = 127
    \/ ip.v = 4 /\ ip.w[1] = 100 /\ ip.w[2] >= 64 /\ ip.w[2] <= 127
    \/ ip.v = 6 /\ ip.w = <<0, 0, 0, 0, 0, 0, 0, 1>>
    \/ ip.v = 6 /\ ip.w[1] = 64938

\* C4: a candidate becomes the agent session only if it passes the network
\* gate (when REQUIRE_PRIVATE_NETWORK is on, its source address is loopback or
\* allow-listed) and then the token gate (its token is the secret); one that a
\* gate rejects is closed with that gate's reason, is never accepted, and
\* leaves the session reference and the command records unchanged.
C4_AdmissionGates ==
    [][\A s \in Sockets :
          /\ (wpc[s] = "connecting" /\ wpc'[s] # "connecting") =>
                IF REQUIRE_PRIVATE_NETWORK /\ ~AllowListed(get_client_ip(cand[s]))
                THEN /\ wpc'[s] = "closed_private_network_required"
                     /\ agent_connection' = agent_connection
                     /\ commands' = commands
                ELSE IF cand[s].token # Some(AUTH_TOKEN)
                THEN /\ wpc'[s] = "closed_forbidden"
                     /\ agent_connection' = agent_connection
                     /\ commands' = commands
                ELSE /\ wpc'[s] = "select"
                     /\ agent_connection' = s
          /\ wpc[s] \in {"closed_private_network_required", "closed_forbidden"} =>
                /\ wpc'[s] = wpc[s]
                /\ agent_connection' # s]_vars

\* With the network gate on, a second candidate was rejected by a gate while
\* the first connection is the session and a record is in the store.
C4_Witness ==
    /\ REQUIRE_PRIVATE_NETWORK
    /\ agent_connection = 1
    /\ wpc[2] \in {"closed_private_network_required", "closed_forbidden"}
    /\ commands # <<>>

\* ---------------------------------------------------------------- C5
\* The agent takes the execute frame at the head of socket s off the wire.
ReadsExecute(s) ==
    /\ toAgent[s] # <<>>
    /\ Head(toAgent[s]).type = "execute"
    /\ toAgent'[s] = Tail(toAgent[s])

IsPrefix(a, b) == Len(a) <= Len(b) /\ SubSeq(b, 1, Len(a)) = a

\* C5: within one session the agent handles execute frames one at a time: it
\* reads an execute frame only when every frame read before has had its
\* result sent, each result frame carries the id of the frame being handled
\* and is the only one for it, and results leave in the order the frames
\* were read, also while the keepalive task sends pings.  (A frame whose
\* handling ends the session has no result: the session reads nothing more.)
C5_Sequential ==
    /\ [](\A s \in Sockets :
            /\ IsPrefix(hist[s].replied, hist[s].read)
            /\ Len(hist[s].read) <= Len(hist[s].replied) + 1
            /\ ag[s].pc = "shell" <=> ag[s].proc = "running")
    /\ [][\A s \in Sockets :
            /\ ReadsExecute(s) =>
                  /\ hist[s].replied = hist[s].read
                  /\ ag[s].proc # "running"
                  /\ hist'[s].read = Append(hist[s].read, Head(toAgent[s]).id)
            /\ hist'[s].read # hist[s].read => ReadsExecute(s)
            /\ Len(toRelay'[s]) > Len(toRelay[s]) =>
                  LET f == toRelay'[s][Len(toRelay'[s])]
                  IN  /\ toRelay'[s] = Append(toRelay[s], f)
                      /\ IF f.type = "result"
                         THEN /\ hist'[s].replied = Append(hist[s].replied, f.id)
                              /\ f.id = hist'[s].read[Len(hist'[s].replied)]
                         ELSE /\ f.type = "ping"
                              /\ hist'[s].replied = hist[s].replied
            /\ hist'[s].replied # hist[s].replied =>
                  Len(toRelay'[s]) = Len(toRelay[s]) + 1]_vars

\* Two frames were read and answered in turn on one socket, a ping of the
\* keepalive task went out while the shell command of the second was running.
C5_Witness ==
    \E s \in Sockets :
        /\ Len(hist[s].replied) = 2
        /\ hist[s].replied = hist[s].read
        /\ ag[s].pings > 0
        /\ ag[s].proc \in {"exited", "killed"}

\* ---------------------------------------------------------------- C6
\* The path an execute frame names: the path of a file command, the working
\* directory of a shell command ("" and None: none).
NamedPath(req) ==
    IF req.command_type = "shell"
    THEN (IF req.working_dir # None /\ req.working_dir[1] # <<>>
          THEN req.working_dir ELSE None)
    ELSE req.path

\* After ~ expansion and resolution the path is neither a root nor below one.
OutsideRoots(p) ==
    /\ ~ExpandResolve(p).raised
    /\ \A root \in {<<"home", "u">>, <<"tmp">>, <<"var", "tmp">>} :
          ~IsPrefix(root, ExpandResolve(p).path)

RejectionTexts == {"Path not allowed:", "Working directory not allowed:"}

\* C6: for a path, or a shell working directory, that resolves outside the
\* allow-listed roots, read_file, write_file, list_dir and execute_shell
\* return status failed, an error naming the rejection and exit_code 1, and
\* nothing has happened: no directory made, no file written, no process
\* spawned.
C6_OutsideRejected ==
    [][\A s \in Sockets :
          (/\ ReadsExecute(s)
           /\ Head(toAgent[s]).req.command_type
                  \in {"shell", "read_file", "write_file", "list_dir"}
           /\ NamedPath(Head(toAgent[s]).req) # None
           /\ OutsideRoots(NamedPath(Head(toAgent[s]).req)[1])) =>
              /\ fs_files' = fs_files
              /\ fs_dirs' = fs_dirs
              /\ ag'[s].proc # "running"
              /\ ag'[s].pc # "shell"
              /\ sock[s] =>
                    /\ Len(toRelay'[s]) = Len(toRelay[s]) + 1
                    /\ LET f == toRelay'[s][Len(toRelay'[s])]
                       IN  /\ f.type = "result"
                           /\ f.id = Head(toAgent[s]).id
                           /\ f.status = Some(FAILED)
                           /\ f.exit_code = Some(1)
                           /\ f.output = None
                           /\ f.error # None
                           /\ f.error[1][1] \in RejectionTexts]_vars

\* A file command on a path outside the roots and a shell command with a
\* working directory outside them were both answered with the rejection.
C6_Witness ==
    \E s \in Sockets : \E i, j \in DOMAIN toRelay[s] :
        /\ toRelay[s][i].type = "result"
        /\ toRelay[s][j].type = "result"
        /\ toRelay[s][i].error # None
        /\ toRelay[s][j].error # None
        /\ toRelay[s][i].error[1][1] = "Path not allowed:"
        /\ toRelay[s][j].error[1][1] = "Working directory not allowed:"

\* ---------------------------------------------------------------- C7
\* C7: whatever fails while the agent handles an execute frame, the working
\* directory resolution of the shell handler included, is caught and becomes
\* a result with status failed and the failure as its error: nothing
\* propagates out of handle_command, so handling a frame never ends the
\* session.
C7_NoFaultLeavesHandler ==
    [][\A s \in Sockets :
          (ReadsExecute(s) /\ sock[s]) =>
              /\ ag'[s].pc # "ended"
              /\ sock'[s]
              /\ (/\ NamedPath(Head(toAgent[s]).req) # None
                  /\ ExpandResolve(NamedPath(Head(toAgent[s]).req)[1]).raised) =>
                    /\ Len(toRelay'[s]) = Len(toRelay[s]) + 1
                    /\ toRelay'[s][Len(toRelay'[s])].type = "result"
                    /\ toRelay'[s][Len(toRelay'[s])].status = Some(FAILED)
                    /\ toRelay'[s][Len(toRelay'[s])].error # None]_vars

\* ---------------------------------------------------------------- C8
\* No frame of command c is on any wire, no flush has fetched it and its own
\* execute_command is past its push.
NothingInFlight(c) ==
    /\ \A s \in Sockets :
          /\ \A i \in DOMAIN toAgent[s] :
                toAgent[s][i].type = "execute" => toAgent[s][i].id # c
          /\ \A i \in DOMAIN toRelay[s] :
                toRelay[s][i].type = "result" => toRelay[s][i].id # c
          /\ \A i \in DOMAIN pending[s] : pending[s][i] # c
    /\ call[c].pc # "send"

\* The command was pushed, its record is running, and the agent is gone
\* with the result not arrived.
RunningOrphan(c) ==
    /\ c \in DOMAIN commands
    /\ commands[c].status = RUNNING
    /\ NothingInFlight(c)

\* C8: a record that is running when the agent has disconnected before its
\* result arrived stays running for ever: a later agent connect fetches for
\* redelivery only the records whose status is pending at its select, so
\* no execute frame is sent again for a record that is running or terminal
\* then.
C8_RunningNotRedelivered ==
    [][/\ \A c \in Calls : RunningOrphan(c) => RunningOrphan(c)'
       /\ \A s \in Sockets :
             (wpc[s] = "select" /\ wpc'[s] # "select") =>
                 \A i \in DOMAIN pending'[s] :
                     commands[pending'[s][i]].status = PENDING
       /\ \A s \in Sockets :
             (wpc[s] = "flush_send" /\ wpc'[s] # "flush_send") =>
                 \A c \in Calls : sent'[c] # sent[c] => c = Head(pending[s])
       /\ \A s \in Sockets :
             wpc[s] # "select" => IsPrefix(pending'[s], pending[s])
                                  \/ pending'[s] = Tail(pending[s])]_vars

\* The command went to the first connection only, that connection is closed,
\* a second one has been accepted and has done its flush, and the record is
\* still running.
C8_Witness ==
    \E c \in Calls :
        /\ RunningOrphan(c)
        /\ sent[c] = <<1>>
        /\ wpc = <<"closed", "recv">>
        /\ agent_connection = 2

\* ---------------------------------------------------------------- C9
\* No other connection has taken over the session reference from s.
NotReplaced(s) == agent_connection \in {0, s}

\* C9: an accepted connection replaces the session reference, then every
\* record pending at its select is sent to this new session as an execute
\* frame, oldest first, each marked running as it is sent, and the receive
\* loop of the session starts only after the whole flush.  (Stated for a new
\* session whose socket is open and which no later connection has replaced.)
C9_FlushToNewSession ==
    [][\A s \in Sockets :
          /\ (wpc[s] = "connecting" /\ wpc'[s] = "select") => agent_connection' = s
          /\ (wpc[s] = "select" /\ wpc'[s] # "select") =>
                /\ \A c \in DOMAIN commands :
                      commands[c].status = PENDING <=>
                          \E i \in DOMAIN pending'[s] : pending'[s][i] = c
                /\ \A i, j \in DOMAIN pending'[s] :
                      i < j => /\ pending'[s][i] # pending'[s][j]
                               /\ commands[pending'[s][i]].created_at
                                     <= commands[pending'[s][j]].created_at
          /\ (/\ wpc[s] = "flush_send" /\ wpc'[s] # "flush_send"
              /\ sock[s] /\ NotReplaced(s)) =>
                toAgent'[s] = Append(toAgent[s],
                                     ExecuteFrame(Head(pending[s]),
                                                  commands[Head(pending[s])].req,
                                                  commands[Head(pending[s])].timeout))
          /\ wpc[s] # "recv" => (toRelay[s] = <<>> \/ toRelay'[s] # Tail(toRelay[s]))]_vars

\* --------------------------------------------------------------- C10
\* C10: when execute_command has created its record and send_command then
\* reports failure (no session, or the send raising), execute_command returns
\* the failed-to-send message without waiting, and the record is left as it
\* is, pending with started_at unset where no connect-time flush has taken it;
\* send_command changes neither the store nor the session reference, sends
\* nothing and is not tried again.
C10_SendFailure ==
    [][\A e \in Calls :
          (/\ call[e].pc = "send"
           /\ call'[e] # call[e]
           /\ agent_connection = 0 \/ ~sock[agent_connection]) =>
              /\ call'[e].pc = "done"
              /\ call'[e].ret = Message(FailedToSendMsg)
              /\ commands' = commands
              /\ (commands[e].status = PENDING /\ commands[e].started_at = None) =>
                    (commands'[e].status = PENDING /\ commands'[e].started_at = None)
              /\ db_writer' = db_writer
              /\ db_uncommitted' = db_uncommitted
              /\ agent_connection' = agent_connection
              /\ toAgent' = toAgent
              /\ sent' = sent]_vars

\* A call returned the failed-to-send message; its record is in the store,
\* pending, started_at unset, and no frame was sent for it.
C10_Witness ==
    \E e \in Calls :
        /\ call[e].ret = Message(FailedToSendMsg)
        /\ e \in DOMAIN commands
        /\ commands[e].status = PENDING
        /\ commands[e].started_at = None
        /\ sent[e] = <<>>

\* ---------------------------------------------------------------- C11
\* C11: the step of execute_command that gives up waiting returns the
\* timed-out message and does nothing else: no frame goes to the agent, no
\* frame in flight is withdrawn, the store and the reference stay as they
\* are; and a result frame the receive loop takes after that return is still
\* written to its record, which then is terminal and carries the frame's
\* output, error and exit code.
C11_TimeoutLeavesCommand ==
    /\ [][\A e \in Calls :
             (call[e].pc = "poll" /\ call'[e].ret = Message(TimedOutMsg)) =>
                 /\ commands' = commands
                 /\ db_uncommitted' = db_uncommitted
                 /\ agent_connection' = agent_connection
                 /\ toAgent' = toAgent
                 /\ toRelay' = toRelay
                 /\ sock' = sock
                 /\ sent' = sent]_vars
    /\ [][\A s \in Sockets :
             (/\ wpc[s] = "recv"
              /\ toRelay[s] # <<>>
              /\ wpc'[s] = "recv"
              /\ toRelay'[s] = Tail(toRelay[s])
              /\ Head(toRelay[s]).type = "result"
              /\ Head(toRelay[s]).id \in DOMAIN commands
              /\ call[Head(toRelay[s]).id].ret = Message(TimedOutMsg)) =>
                 LET data == Head(toRelay[s])
                     row == commands'[data.id]
                 IN  /\ row.status \in Terminal
                     /\ data.status # None => row.status = data.status[1]
                     /\ row.output = data.output
                     /\ row.error = data.error
                     /\ row.exit_code = data.exit_code
                     /\ row.completed_at # None]_vars

\* An invocation returned the timed-out message, and the result of its
\* command, taken by the receive loop afterwards, is in its record.
C11_Witness ==
    \E e \in Calls :
        /\ call[e].ret = Message(TimedOutMsg)
        /\ e \in DOMAIN commands
        /\ commands[e].status \in Terminal
        /\ commands[e].completed_at # None

\* ---------------------------------------------------------------- C12
\* C12: the step at which a session's receive loop ends on its closed socket
\* clears the reference; the reference, once cleared, is set again only by a
\* socket passing both gates; and while it is cleared is_agent_connected is
\* false, no step pushes a frame to any agent (send_command returns False)
\* and an invocation that starts returns the not-connected message.
C12_DisconnectClears ==
    /\ [][\A s \in Sockets :
             (wpc[s] = "recv" /\ wpc'[s] # "recv") =>
                 /\ ~sock[s]
                 /\ wpc'[s] = "closed"
                 /\ agent_connection' = 0]_vars
    /\ [][(agent_connection = 0 /\ agent_connection' # 0) =>
             \E s \in Sockets :
                 /\ wpc[s] = "connecting"
                 /\ PassesNetworkGate(cand[s])
                 /\ PassesTokenGate(cand[s])
                 /\ wpc'[s] = "select"
                 /\ agent_connection' = s]_vars
    /\ [](agent_connection = 0 => ~is_agent_connected /\ ~send_command_success)
    /\ [][agent_connection = 0 =>
             /\ sent' = sent
             /\ \A s \in Sockets : Len(toAgent'[s]) <= Len(toAgent[s])
             /\ \A e \in Calls :
                    (call[e].pc = "idle" /\ call'[e] # call[e]) =>
                        call'[e].ret = Message(NotConnectedMsg)
             /\ \A e \in Calls :
                    (call[e].pc = "send" /\ call'[e] # call[e]) =>
                        call'[e].ret = Message(FailedToSendMsg)]_vars

\* A session's receive loop has ended, the reference is cleared, and an
\* invocation that started after that returned the not-connected message.
C12_Witness ==
    /\ agent_connection = 0
    /\ \E s \in Sockets : wpc[s] = "closed"
    /\ \E e \in Calls : call[e].ret = Message(NotConnectedMsg)

\* ---------------------------------------------------------------- C13
\* C13: the supervisor is only ever connecting, connected or sleeping; a
\* failed attempt and an ended session both take it to a sleep of exactly
\* RECONNECT_DELAY seconds, whatever the number of attempts before; it
\* leaves a session only when the session has ended; and every sleep and
\* every ended session is followed by the connecting state.
C13_SupervisorNeverStops ==
    /\ [](sup.pc \in {"connecting", "connected", "sleeping"})
    /\ [](sup.pc = "sleeping" => sup.delay = RECONNECT_DELAY)
    /\ [][sup'.pc # sup.pc =>
             \/ sup.pc = "connecting" /\ sup'.pc \in {"connected", "sleeping"}
             \/ /\ sup.pc = "connected"
                /\ ag[sup.s].pc = "ended"
                /\ sup'.pc = "sleeping"
             \/ sup.pc = "sleeping" /\ sup'.pc = "connecting"]_vars
    /\ (sup.pc = "sleeping") ~> (sup.pc = "connecting")
    /\ \A s \in Sockets :
           (sup.pc = "connected" /\ sup.s = s /\ ag[s].pc = "ended")
               ~> (sup.pc = "connecting")

\* Every socket of the model has carried a session that ended, and the
\* supervisor is connecting once more.
C13_Witness ==
    /\ sup.pc = "connecting"
    /\ \A s \in Sockets : ag[s].pc = "ended"

\* ---------------------------------------------------------------- C14
\* C14: the ping task ends on a failed send only in a session whose
\* transport is closed, and such a session is left: from the failed ping the
\* supervisor comes to sleep RECONNECT_DELAY seconds with that session ended,
\* and from there to connecting.
C14_KeepaliveFailure ==
    /\ [][\A s \in Sockets :
             (ag[s].ping_task = "running" /\ ag'[s].ping_task = "ended") =>
                 /\ ~sock[s]
                 /\ sup.pc = "connected"
                 /\ sup.s = s]_vars
    /\ \A s \in Sockets :
           (ag[s].ping_task = "ended")
               ~> (/\ sup.pc = "sleeping"
                   /\ sup.delay = RECONNECT_DELAY
                   /\ sup.s = s
                   /\ ag[s].pc = "ended")
    /\ \A s \in Sockets :
           (ag[s].ping_task = "ended") ~> (sup.pc = "connecting" /\ ag[s].pc = "ended")

\* The ping task of the running session has ended on a failed send while a
\* shell command is still being handled on the closed socket.
C14_Witness ==
    \E s \in Sockets :
        /\ ag[s].ping_task = "ended"
        /\ ~sock[s]
        /\ ag[s].pc = "shell"
        /\ sup.pc = "connected"
        /\ sup.s = s

\* ---------------------------------------------------------------- C15
\* C15: execute_shell returns only with its process ended: killed when the
\* timeout expired, and then the result is status timeout with exit code -1;
\* exited by itself otherwise, and then the result is completed or failed
\* with the return code of the process; no result that is not of a killed
\* process has status timeout, and outside execute_shell no process runs.
C15_TimeoutKills ==
    /\ [](\A s \in Sockets : ag[s].proc = "running" <=> ag[s].pc = "shell")
    /\ [][\A s \in Sockets :
             (ag[s].pc = "shell" /\ ag'[s].pc # "shell") =>
                 /\ ag[s].proc = "running"
                 /\ ag'[s].proc \in {"killed", "exited"}
                 /\ ag'[s].proc = "exited" => ag[s].cur[1].timeout > 0
                 /\ Len(toRelay'[s]) > Len(toRelay[s]) =>
                        LET f == toRelay'[s][Len(toRelay'[s])]
                        IN  /\ f.type = "result"
                            /\ f.id = ag[s].cur[1].id
                            /\ IF ag'[s].proc = "killed"
                               THEN /\ f.status = Some(TIMEOUT)
                                    /\ f.exit_code = Some(0 - 1)
                                    /\ f.output = None
                               ELSE /\ f.status \in {Some(COMPLETED), Some(FAILED)}
                                    /\ f.status = Some(COMPLETED) <=> f.exit_code = Some(0)]_vars
    /\ [][\A s \in Sockets :
             (/\ Len(toRelay'[s]) > Len(toRelay[s])
              /\ toRelay'[s][Len(toRelay'[s])].type = "result"
              /\ toRelay'[s][Len(toRelay'[s])].status = Some(TIMEOUT)) =>
                 /\ ag[s].proc = "running"
                 /\ ag'[s].proc = "killed"]_vars

\* A shell command was killed at its timeout and its result, status timeout
\* with exit code -1, is on its way to the relay.
C15_Witness ==
    \E s \in Sockets :
        /\ ag[s].proc = "killed"
        /\ ag[s].pc = "loop"
        /\ toRelay[s] # <<>>
        /\ toRelay[s][Len(toRelay[s])].type = "result"
        /\ toRelay[s][Len(toRelay[s])].status = Some(TIMEOUT)
        /\ toRelay[s][Len(toRelay[s])].exit_code = Some(0 - 1)

\* ---------------------------------------------------------------- C16
\* What a result frame puts in a record.
Stored(row) ==
    [status |-> row.status, output |-> row.output, error |-> row.error,
     exit_code |-> row.exit_code]
FrameValues(data) ==
    [status |-> IF data.status = None THEN COMPLETED ELSE data.status[1],
     output |-> data.output, error |-> data.error, exit_code |-> data.exit_code]

\* C16: every result frame the receive loop takes for a stored id leaves the
\* record with that frame's status, output, error and exit code and a new
\* completed_at, whatever an earlier frame had put there; and storing a
\* frame in flight twice gives the same four values as storing it once.
C16_DuplicateResults ==
    /\ [][\A s \in Sockets :
             (/\ wpc[s] = "recv"
              /\ wpc'[s] = "recv"
              /\ toRelay[s] # <<>>
              /\ toRelay'[s] = Tail(toRelay[s])
              /\ Head(toRelay[s]).type = "result"
              /\ Head(toRelay[s]).id \in DOMAIN commands) =>
                 LET data == Head(toRelay[s])
                 IN  /\ Stored(commands'[data.id]) = FrameValues(data)
                     /\ commands'[data.id].completed_at # commands[data.id].completed_at
                     /\ commands'[data.id].completed_at # None]_vars
    /\ [](\A s \in Sockets : \A i \in 1..Len(toRelay[s]) :
             (toRelay[s][i].type = "result" /\ toRelay[s][i].id \in DOMAIN commands) =>
                 LET data == toRelay[s][i]
                     once == StoreResult(commands[data.id], data)
                 IN  Stored(StoreResult(once, data)) = Stored(once))

\* A record has been written by two result frames.
C16_Witness ==
    \E c \in DOMAIN commands :
        /\ commands[c].status \in Terminal
        /\ commands[c].completed_at = Some(2)

\* ---------------------------------------------------------------- C17
\* str.strip() said without recursion: from the first to the last character
\* that is not whitespace.
Trimmed(t) ==
    LET keep == {i \in 1..Len(t) : t[i] \notin Whitespace}
    IN  IF keep = {} THEN <<>>
        ELSE SubSeq(t, CHOOSE i \in keep : \A j \in keep : i <= j,
                       CHOOSE i \in keep : \A j \in keep : j <= i)

\* The text the claim describes for a record.
DescribedText(row) ==
    LET output == IF row.output = None THEN <<>> ELSE row.output[1]
        stderr == IF row.error = None \/ row.error = Some(<<>>) THEN <<>>
                  ELSE StderrTag \o row.error[1]
        code == IF row.exit_code = None THEN <<>>
                ELSE ExitCodeTag \o IntStr(row.exit_code[1]) \o <<"]">>
        whole == Trimmed(output \o stderr \o code)
    IN  IF whole = <<>> THEN NoOutputText ELSE whole

\* C17: the observation of a terminal record returns the output (empty when
\* null), then the stderr tag and the error when the error is not empty,
\* then the exit-code tag and the number when the exit code is not null, all
\* of it trimmed of whitespace at both ends, or "(no output)" when nothing
\* is left.
C17_ResultText ==
    [][\A e \in Calls :
          (/\ call[e].pc = "poll"
           /\ e \in DOMAIN commands
           /\ commands[e].status \in Terminal) =>
              /\ call'[e].pc = "done"
              /\ call'[e].ret = ResultText(DescribedText(commands[e]))]_vars

\* A returned text with all three parts: the output, its trailing space
\* kept inside; the error, its trailing newline kept too; the exit code 0.
C17_Witness ==
    \E e \in Calls :
        /\ call[e].pc = "done"
        /\ call[e].ret.kind = "result"
        /\ call[e].ret.text =
               <<"a", " ", "b", " ">> \o StderrTag \o <<"w", "\n">>
                   \o ExitCodeTag \o <<"0", "]">>

\* ---------------------------------------------------------------- C18
\* p is the first characters of t, item by item, its last item possibly a
\* shorter run of the run t has there.
IsTextPrefix(p, t) ==
    /\ Len(p) <= Len(t)
    /\ \A i \in 1..Len(p) :
           \/ p[i] = t[i]
           \/ /\ i = Len(p)
              /\ p[i] \in DOMAIN RunLen
              /\ t[i] \in DOMAIN RunLen
              /\ RunLen[p[i]] <= RunLen[t[i]]

\* out is what the claim says is returned for the text in.
CappedAs(in, out, marker) ==
    /\ TextLen(out) <= MAX_OUTPUT_SIZE + TextLen(marker)
    /\ IF TextLen(in) <= MAX_OUTPUT_SIZE THEN out = in
       ELSE /\ Len(out) > Len(marker)
            /\ SubSeq(out, Len(out) - Len(marker) + 1, Len(out)) = marker
            /\ TextLen(SubSeq(out, 1, Len(out) - Len(marker))) = MAX_OUTPUT_SIZE
            /\ IsTextPrefix(SubSeq(out, 1, Len(out) - Len(marker)), in)

\* C18: the content read_file returns is the file's text capped with the
\* content marker; the output and the error an ended command returns are
\* what it wrote to stdout and to stderr, each capped on its own with its
\* own marker; capped means unchanged up to MAX_OUTPUT_SIZE characters and,
\* above, the first MAX_OUTPUT_SIZE characters followed by the marker, never
\* longer than the cap and the marker together.
C18_OutputCap ==
    /\ [](\A t \in LongTexts : \A m \in {OutputMarker, ErrorMarker, ContentMarker} :
             CappedAs(t, Truncate(t, m), m))
    /\ [][\A s \in Sockets :
             (/\ Len(toRelay'[s]) > Len(toRelay[s])
              /\ toRelay'[s][Len(toRelay'[s])].type = "result"
              /\ toRelay'[s][Len(toRelay'[s])].status # Some(TIMEOUT)) =>
                 LET f == toRelay'[s][Len(toRelay'[s])]
                 IN  IF ag[s].pc = "shell"
                     THEN /\ f.output # None
                          /\ \E o \in LongTexts : CappedAs(o, f.output[1], OutputMarker)
                          /\ \E e \in LongTexts : CappedAs(e, OrEmpty(f.error), ErrorMarker)
                     ELSE (Head(toAgent[s]).req.command_type = "read_file"
                           /\ f.status = Some(COMPLETED)) =>
                              /\ f.output # None
                              /\ CappedAs(fs_files[Home \o <<"a.txt">>], f.output[1],
                                          ContentMarker)]_vars

\* The result of a command that wrote more than the cap to stdout and two
\* characters to stderr: the output cut with its marker, the error whole.
C18_Witness ==
    \E s \in Sockets :
        /\ toRelay[s] # <<>>
        /\ Head(toRelay[s]).type = "result"
        /\ Head(toRelay[s]).output = Some(<<"a", "x*(cap-1)">> \o OutputMarker)
        /\ Head(toRelay[s]).error = Some(<<"o", "\n">>)
        /\ TextLen(Head(toRelay[s]).output[1]) = MAX_OUTPUT_SIZE + 23

\* ---------------------------------------------------------------- C19
\* C19: a step that marks records running (the UPDATE of execute_command,
\* the commit of the connect-time flush) takes a pending record to running
\* with started_at set, and leaves the status and started_at of a terminal
\* record as they were.
C19_MarkRunning ==
    [][(\/ \E e \in Calls : call[e].pc = "update" /\ call'[e].pc # "update"
        \/ \E s \in Sockets : wpc[s] = "commit" /\ wpc'[s] # "commit") =>
          \A c \in DOMAIN commands :
              /\ commands[c].status \in Terminal =>
                     /\ commands'[c].status = commands[c].status
                     /\ commands'[c].started_at = commands[c].started_at
              /\ (commands[c].status = PENDING /\ commands'[c] # commands[c]) =>
                     /\ commands'[c].status = RUNNING
                     /\ commands'[c].started_at # None]_vars

\* ---------------------------------------------------------------- C20
\* C20: once its record is inserted, no step of an invocation of
\* execute_command (the push, what follows it, the observations) writes to
\* the store: every record keeps its status and every other column.
C20_BridgeOnlyReads ==
    [][\A e \in Calls :
          (call[e].pc \in {"send", "update", "poll"} /\ call'[e] # call[e]) =>
              /\ DOMAIN commands' = DOMAIN commands
              /\ \A c \in DOMAIN commands : commands'[c].status = commands[c].status
              /\ commands' = commands]_vars

\* ---------------------------------------------------------------- C21
\* C21: a step of the receive loop on a frame of an open socket: a result
\* frame changes no record but the one its id names and creates none; a
\* ping frame puts exactly one pong on that socket and changes no record;
\* any other frame changes neither the store nor the reference; and after
\* each of them the loop is still receiving.
C21_ReceiveLoopFrames ==
    [][\A s \in Sockets :
          (/\ wpc[s] = "recv"
           /\ sock[s]
           /\ toRelay[s] # <<>>
           /\ toRelay'[s] # toRelay[s]
           /\ Len(toRelay'[s]) < Len(toRelay[s])) =>
              LET f == Head(toRelay[s])
              IN  /\ wpc'[s] = "recv"
                  /\ agent_connection' = agent_connection
                  /\ DOMAIN commands' = DOMAIN commands
                  /\ IF f.type = "result"
                     THEN /\ \A c \in DOMAIN commands :
                                c # f.id => commands'[c] = commands[c]
                          /\ toAgent' = toAgent
                     ELSE IF f.type = "ping"
                     THEN /\ commands' = commands
                          /\ toAgent'[s] = Append(toAgent[s], [type |-> "pong"])
                          /\ \A s2 \in Sockets : s2 # s => toAgent'[s2] = toAgent[s2]
                     ELSE /\ commands' = commands
                          /\ toAgent' = toAgent]_vars

\* ---------------------------------------------------------------- C22
\* C22: whatever the interleaving of invocations and connects, no command
\* id has more than one execute frame sent for it.
C22_OneExecuteFrame ==
    \A c \in Calls : Len(sent[c]) <= 1

\* ---------------------------------------------------------------- C23
\* C23: the reference is cleared only in the step that ends the receive
\* loop of the session it names; the end of the loop of a session that was
\* replaced leaves the reference on the session that replaced it.
C23_ClearedByOwnSession ==
    [][\A s \in Sockets :
          (agent_connection = s /\ agent_connection' = 0) =>
              (wpc[s] = "recv" /\ wpc'[s] = "closed")]_vars

\* ---------------------------------------------------------------- C24
\* C24: an invocation returns the timed-out message only if no result was
\* stored in its record up to its last observation; a result stored before
\* that, be it between the push and the invocation's own UPDATE, makes it
\* return the formatted result.
C24_StoredResultReturned ==
    [][\A e \in Calls :
          (/\ call[e].pc \in {"update", "poll"}
           /\ call'[e].pc = "done"
           /\ e \in DOMAIN commands
           /\ commands[e].completed_at # None) =>
              /\ call'[e].ret.kind = "result"
              /\ call'[e].ret # Message(TimedOutMsg)]_vars

\* ---------------------------------------------------------------- C25
\* C25: the commit of a connect-time flush takes a pending record to
\* running only if an execute frame was sent for it; a record whose send
\* failed is pending after the flush.
C25_FlushMarksOnlySent ==
    [][(\E s \in Sockets : wpc[s] = "commit" /\ wpc'[s] = "recv") =>
          \A c \in DOMAIN commands :
              (commands[c].status = PENDING /\ sent[c] = <<>>) =>
                  commands'[c].status = PENDING]_vars

\* ---------------------------------------------------------------- C26
\* C26: every stored status is one of pending, running, completed, failed,
\* timeout, and the step of the receive loop that stores a result frame
\* leaves the record it names with one of completed, failed, timeout,
\* whatever the frame has as its status.
C26_StatusDomain ==
    /\ [](\A c \in DOMAIN commands : commands[c].status \in CommandStatus)
    /\ [][\A s \in Sockets :
             (/\ wpc[s] = "recv"
              /\ wpc'[s] = "recv"
              /\ toRelay[s] # <<>>
              /\ toRelay'[s] = Tail(toRelay[s])
              /\ Head(toRelay[s]).type = "result"
              /\ Head(toRelay[s]).id \in DOMAIN commands) =>
                 commands'[Head(toRelay[s]).id].status \in Terminal]_vars

====
